---- MODULE Spec2Model ----
(***************************************************************************)
(* A model of src/src/index.tsx: the action creators, the router           *)
(* middleware, the router reducer and the ReduxRouter component that       *)
(* wires a history object and a Redux store together.                      *)
(*                                                                         *)
(* Every callback of the program runs synchronously inside the call that   *)
(* triggered it.  The model keeps the chain of calls still to run in       *)
(* `stack` (its head is the call that runs next); an outside stimulus      *)
(* (a dispatch, a navigation, a devtools state change, a React lifecycle   *)
(* step) happens only when the stack is empty.                             *)
(*                                                                         *)
(* The two collaborators are imported, not part of index.tsx; they are     *)
(* modelled by what the calls made on them do: the store as Redux does it  *)
(* (dispatch = reduce, then call the subscribers) and the history as       *)
(* history v5's memory history does it (v5 is the version whose listener   *)
(* receives one {location, action} object, index.tsx line 216): every      *)
(* operation completes and calls the listeners once, synchronously; push   *)
(* and replace take the new location's state from their second argument;   *)
(* go keeps the index inside the stack.  SpecFailure is the same program   *)
(* with a history whose operations and whose listen may throw.             *)
(***************************************************************************)
EXTENDS Integers, Sequences, FiniteSets, TLC

(* ---------------------------------------------------------------- bounds *)

\* The longest history stack; a stimulus that may push needs room for it.
MaxEntries == 2

(* ------------------------------------------------------------- constants *)

ROUTER_ON_LOCATION_CHANGED == "@@router/ON_LOCATION_CHANGED"

ROUTER_CALL_HISTORY_METHOD == "@@router/CALL_HISTORY_METHOD"

\* A message type that is neither of the router's.
OTHER_TYPE == "app/OTHER"

Methods == {"push", "replace", "go", "back", "forward"}

ActionKinds == {"PUSH", "REPLACE", "POP"}

\* JavaScript's null: the state of a location that carries none.
Null == "null"

(* A Location {pathname, search, hash, state} (its key is never read by    *)
(* index.tsx).  The locations the stimuli draw from: a base location and   *)
(* one that differs from it in exactly one field, for each field.          *)
Loc(p, s, h, st) == [pathname |-> p, search |-> s, hash |-> h, state |-> st]

LocA == Loc("/a", "", "", Null)

LocB == Loc("/b", "", "", Null)

LocS == Loc("/a", "", "", "s1")

Locations ==
    { LocA, LocB, Loc("/a", "?q", "", Null), Loc("/a", "", "#h", Null), LocS }

\* The locations the history may be at when the program starts.
InitialLocations == { LocA, LocS }

\* The locations the commands navigate to.
Targets == { LocB, LocS }

Deltas == {-2, 2}

(* ------------------------------------------------------- action creators *)

onLocationChanged(location, action) ==
    [type |-> ROUTER_ON_LOCATION_CHANGED,
     payload |-> [location |-> location, action |-> action]]

updateLocation(method, args) ==
    [type |-> ROUTER_CALL_HISTORY_METHOD,
     payload |-> [method |-> method, args |-> args]]

\* A `to` argument: the path part of a location.
PathOf(l) == [pathname |-> l.pathname, search |-> l.search, hash |-> l.hash]

push(to, state) == updateLocation("push", <<to, state>>)

replace(to, state) == updateLocation("replace", <<to, state>>)

go(delta) == updateLocation("go", <<delta>>)

back == updateLocation("back", <<>>)

forward == updateLocation("forward", <<>>)

\* The command messages a producer may dispatch.
Commands ==
    { push(PathOf(l), l.state) : l \in Targets }
    \cup { replace(PathOf(l), l.state) : l \in Targets }
    \cup { go(d) : d \in Deltas }
    \cup { back, forward }

\* The navigations that do not come through the store: a link pushes, the
\* user goes back or forward.
UserNavigations == { push(PathOf(LocB), Null), back, forward }

\* A message of the application's own.
OtherMessage == [type |-> OTHER_TYPE, payload |-> [n |-> 0]]

(* --------------------------------------------------------------- reducer *)

\* {...state, ...payload}: the keys of payload win, the others are kept.
Spread(state, payload) ==
    [k \in (DOMAIN state) \cup (DOMAIN payload) |->
        IF k \in DOMAIN payload THEN payload[k] ELSE state[k]]

\* A reducer that takes the location and forgets the action kind.
routerReducerLocationOnly(state, action) ==
    IF action.type = ROUTER_ON_LOCATION_CHANGED
    THEN Spread(state, [location |-> action.payload.location])
    ELSE state

\* A reducer that returns the payload alone, without the spread of state.
routerReducerReplaces(state, action) ==
    IF action.type = ROUTER_ON_LOCATION_CHANGED
    THEN action.payload
    ELSE state

\* A reducer that also answers a command, by marking the state as a POP.
routerReducerAnswersCommands(state, action) ==
    IF action.type = ROUTER_ON_LOCATION_CHANGED
    THEN Spread(state, action.payload)
    ELSE IF action.type = ROUTER_CALL_HISTORY_METHOD
         THEN Spread(state, [action |-> "POP"])
         ELSE state

routerReducer(state, action) ==
    IF action.type = ROUTER_ON_LOCATION_CHANGED
    THEN Spread(state, action.payload)
    ELSE state

reduxRouterSelector(state) == state.router

\* The store's root reducer: the router reducer mounted under `router`.
rootReducer(state, action) ==
    [state EXCEPT !.router = routerReducer(state.router, action)]

\* The {location, action} pairs an outside tool can put into the store.
RouterStates ==
    { [location |-> l, action |-> a] : l \in Locations, a \in ActionKinds }

\* The keys an application may have merged into the router state.
ExtraKeys == { [k \in {} |-> 1], [extra |-> 1] }

(* ----------------------------------------------------------------- state *)

VARIABLES
    entries,         \* history: the stack of locations
    index,           \* history: the position of the current location
    hAction,         \* history.action
    listening,       \* history: the component's listener is registered
    storeState,      \* store.getState()
    subscribed,      \* store: the component's subscription is registered
    enableTimeTravelling,   \* the prop
    phase,           \* the component: "rendered", "active", "cleaned"
    state,           \* useState: {action, location}
    timeTravellingRef,      \* useRef(false).current
    stack,           \* the calls still to run, the running one first
    stim,            \* the last outside stimulus (of a store change: with
                     \* the history's location and action before it)
    events,          \* NavigationEvents the history emitted since the stimulus
    dispatched,      \* LOCATION_CHANGED payloads the reducer got since then
    reduced,         \* types of all messages the reducer got since then
    calls,           \* history operations invoked since then
    refWrites,       \* values written to timeTravellingRef.current since then
    observed,        \* the last NavigationEvent the listener was called
                     \* with, as a sequence: empty before the first call
    mwReturn,        \* what the last middleware call since then returns
    thrown           \* an exception has reached the caller since then

vars ==
    <<entries, index, hAction, listening, storeState, subscribed,
      enableTimeTravelling, phase, state, timeTravellingRef, stack,
      stim, events, dispatched, reduced, calls, refWrites, observed,
      mwReturn, thrown>>

historyVars == <<entries, index, hAction>>

subsVars == <<listening, subscribed>>

logVars == <<stim, events, dispatched, reduced, calls, refWrites, observed>>

compVars == <<enableTimeTravelling, phase, state, timeTravellingRef>>

historyLocation == entries[index]

\* The listener has not been called yet.
NoEvent == <<>>

\* What the history is at when a stimulus arrives.
Before == [location |-> historyLocation, action |-> hAction]

Quiescent == stack = <<>>

\* The logs start again with each outside stimulus; `exception` says
\* whether the stimulus itself ends in an exception.
StimulusEnding(s, exception) ==
    /\ Quiescent
    /\ stim' = s
    /\ events' = <<>>
    /\ dispatched' = <<>>
    /\ reduced' = <<>>
    /\ calls' = <<>>
    /\ refWrites' = <<>>
    /\ mwReturn' = "none"
    /\ thrown' = exception
    /\ UNCHANGED observed

Stimulus(s) == StimulusEnding(s, FALSE)

Top == Head(stack)

Running(pc) == stack # <<>> /\ Top.pc = pc

\* The running call ends and `frames` run in its place, in order.
Continue(frames) == stack' = frames \o Tail(stack)

(* ------------------------------------------------------------------ Init *)

\* What createRouterReducer may have captured when the history has
\* navigated between the reducer's construction and the first render.
StaleRouterStates == { [location |-> LocB, action |-> "POP"] }

InitOf(locations, extras, stale) ==
    /\ \E l \in locations, a \in ActionKinds, x \in extras :
       \E captured \in { [location |-> l, action |-> a] } \cup stale :
          /\ entries = <<l>>
          /\ index = 1
          /\ hAction = a
          \* createRouterReducer: initialRouterState (lines 141-144), or a
          \* preloaded state that holds more keys
          /\ storeState = [router |-> Spread(x, captured)]
          \* the first render: useState's initial value
          /\ state = [action |-> a, location |-> l]
    /\ listening = FALSE
    /\ subscribed = FALSE
    /\ enableTimeTravelling \in BOOLEAN
    /\ phase = "rendered"
    \* useRef(false)
    /\ timeTravellingRef = FALSE
    /\ stack = <<>>
    /\ stim = [kind |-> "none"]
    /\ events = <<>>
    /\ dispatched = <<>>
    /\ reduced = <<>>
    /\ calls = <<>>
    /\ refWrites = <<>>
    /\ observed = NoEvent
    /\ mwReturn = "none"
    /\ thrown = FALSE

Init == InitOf(InitialLocations, ExtraKeys, StaleRouterStates)

(* ---------------------------------------------------------------- frames *)

\* store.dispatch(msg): the middleware chain's entry.
DispatchFrame(msg) == [pc |-> "dispatch", msg |-> msg]

\* next(msg): the store's own dispatch, behind the middleware.
NextFrame(msg) == [pc |-> "next", msg |-> msg]

\* history[method](...args); `by` names the caller.
HistoryFrame(method, args, by) ==
    [pc |-> "history", method |-> method, args |-> args, by |-> by]

\* The component's history listener called with {location, action}; `by` is
\* the caller of the operation that caused the event.
ListenerFrame(location, action, by) ==
    [pc |-> "listener", location |-> location, action |-> action, by |-> by]

\* The component's store subscription callback.
SubscriberFrame == [pc |-> "subscriber"]

\* timeTravellingRef.current = value
SetRefFrame(value) == [pc |-> "setRef", value |-> value]

\* setState(value)
SetStateFrame(value) == [pc |-> "setState", value |-> value]

(* ------------------------------------------------------------ middleware *)

\* A middleware that calls the history and forwards the command as well.
middlewareForwards(action) ==
    IF action.type # ROUTER_CALL_HISTORY_METHOD
    THEN [frames |-> <<NextFrame(action)>>, returns |-> "next"]
    ELSE [frames |-> <<HistoryFrame(action.payload.method,
                                    action.payload.args, "middleware"),
                       NextFrame(action)>>,
          returns |-> "next"]

\* A middleware that calls next without returning its result.
middlewareNoReturn(action) ==
    IF action.type # ROUTER_CALL_HISTORY_METHOD
    THEN [frames |-> <<NextFrame(action)>>, returns |-> "undefined"]
    ELSE [frames |-> <<HistoryFrame(action.payload.method,
                                    action.payload.args, "middleware")>>,
          returns |-> "undefined"]

(* createRouterMiddleware: what one call of the middleware does with       *)
(* `action`: the calls it makes, and whether it returns next's result.     *)
middleware(action) ==
    IF action.type # ROUTER_CALL_HISTORY_METHOD
    THEN [frames |-> <<NextFrame(action)>>, returns |-> "next"]
    ELSE [frames |-> <<HistoryFrame(action.payload.method,
                                    action.payload.args, "middleware")>>,
          returns |-> "undefined"]

Middleware ==
    /\ Running("dispatch")
    /\ Continue(middleware(Top.msg).frames)
    /\ mwReturn' = middleware(Top.msg).returns
    /\ UNCHANGED <<historyVars, subsVars, storeState, enableTimeTravelling,
                   phase, state, timeTravellingRef, logVars, thrown>>

(* ----------------------------------------------------------------- store *)

\* The frames that call the store's subscribers.
NotifySubscribers == IF subscribed THEN <<SubscriberFrame>> ELSE <<>>

\* Redux's dispatch: reduce, then call every subscriber.
StoreDispatch ==
    /\ Running("next")
    /\ storeState' = rootReducer(storeState, Top.msg)
    /\ reduced' = Append(reduced, Top.msg.type)
    /\ dispatched' =
          IF Top.msg.type = ROUTER_ON_LOCATION_CHANGED
          THEN Append(dispatched, Top.msg.payload)
          ELSE dispatched
    /\ Continue(NotifySubscribers)
    /\ UNCHANGED <<historyVars, subsVars, compVars, stim, events, calls,
                   refWrites, observed, mwReturn, thrown>>

(* --------------------------------------------------------------- history *)

Clamp(n, lo, hi) == IF n < lo THEN lo ELSE IF n > hi THEN hi ELSE n

\* history v5 getNextLocation(to, state = null): the state of the new
\* location is the operation's second argument, never a key of `to`.
getNextLocation(args) ==
    [pathname |-> args[1].pathname,
     search |-> args[1].search,
     hash |-> args[1].hash,
     state |-> IF Len(args) >= 2 THEN args[2] ELSE Null]

Delta(method, args) ==
    CASE method = "go" -> args[1]
      [] method = "back" -> -1
      [] method = "forward" -> 1

\* The history after history[method](...args): its entries, index, action.
historyAfter(method, args) ==
    CASE method = "push" ->
            [entries |-> Append(SubSeq(entries, 1, index), getNextLocation(args)),
             index |-> index + 1,
             action |-> "PUSH"]
      [] method = "replace" ->
            [entries |-> [entries EXCEPT ![index] = getNextLocation(args)],
             index |-> index,
             action |-> "REPLACE"]
      [] OTHER ->
            [entries |-> entries,
             index |-> Clamp(index + Delta(method, args), 1, Len(entries)),
             action |-> "POP"]

\* One history operation: the history changes and calls its listeners with
\* the NavigationEvent.
HistoryCall ==
    /\ Running("history")
    /\ LET h == historyAfter(Top.method, Top.args)
           location == h.entries[h.index]
       IN /\ entries' = h.entries
          /\ index' = h.index
          /\ hAction' = h.action
          /\ events' = Append(events, [location |-> location, action |-> h.action])
          /\ calls' = Append(calls, [method |-> Top.method, args |-> Top.args,
                                     by |-> Top.by])
          /\ Continue(IF listening
                      THEN <<ListenerFrame(location, h.action, Top.by)>>
                      ELSE <<>>)
    /\ UNCHANGED <<subsVars, storeState, compVars, stim, dispatched, reduced,
                   refWrites, observed, mwReturn, thrown>>

(* ------------------------------------------------------------- component *)

\* The test without the comparison of the locations' state.
isTimeTravellingNoState(action, location, locationInStore) ==
    /\ action = "PUSH"
    /\ ( \/ location.pathname # locationInStore.pathname
         \/ location.search # locationInStore.search
         \/ location.hash # locationInStore.hash )

\* The test without the condition on the last action kind.
isTimeTravellingAnyAction(action, location, locationInStore) ==
    \/ location.pathname # locationInStore.pathname
    \/ location.search # locationInStore.search
    \/ location.hash # locationInStore.hash
    \/ location.state # locationInStore.state

\* The test of the store subscription (lines 201-209).
isTimeTravelling(action, location, locationInStore) ==
    /\ action = "PUSH"
    /\ ( \/ location.pathname # locationInStore.pathname
         \/ location.search # locationInStore.search
         \/ location.hash # locationInStore.hash
         \/ location.state # locationInStore.state )

\* A subscription that pushes without setting the guard first.
storeSubscriptionNoGuard(locationInStore) ==
    IF isTimeTravelling(hAction, historyLocation, locationInStore)
    THEN <<HistoryFrame("push", <<locationInStore>>, "reconciler")>>
    ELSE <<>>

\* A subscription that pushes first and sets the guard afterwards.
storeSubscriptionPushFirst(locationInStore) ==
    IF isTimeTravelling(hAction, historyLocation, locationInStore)
    THEN <<HistoryFrame("push", <<locationInStore>>, "reconciler"),
           SetRefFrame(TRUE)>>
    ELSE <<>>

\* The store subscription callback (lines 195-213): the calls it makes.
storeSubscription(locationInStore) ==
    IF isTimeTravelling(hAction, historyLocation, locationInStore)
    THEN <<SetRefFrame(TRUE),
           HistoryFrame("push", <<locationInStore>>, "reconciler")>>
    ELSE <<>>

StoreSubscription ==
    /\ Running("subscriber")
    /\ Continue(storeSubscription(reduxRouterSelector(storeState).location))
    /\ UNCHANGED <<historyVars, subsVars, storeState, enableTimeTravelling,
                   phase, state, timeTravellingRef, logVars, mwReturn, thrown>>

SetRef ==
    /\ Running("setRef")
    /\ timeTravellingRef' = Top.value
    /\ refWrites' = Append(refWrites, Top.value)
    /\ Continue(<<>>)
    /\ UNCHANGED <<historyVars, subsVars, storeState, enableTimeTravelling,
                   phase, state, stim, events, dispatched, reduced, calls,
                   observed, mwReturn, thrown>>

\* A listener whose test of the guard is inverted.
historyListenerInverted(ref, location, action) ==
    IF ref = TRUE
    THEN [writes |-> <<>>,
          frames |-> <<DispatchFrame(onLocationChanged(location, action)),
                       SetStateFrame([action |-> action, location |-> location])>>]
    ELSE [writes |-> <<FALSE>>,
          frames |-> <<SetStateFrame([action |-> action, location |-> location])>>]

\* A listener that skips the dispatch and leaves the guard set.
historyListenerKeepsGuard(ref, location, action) ==
    IF ref = FALSE
    THEN [writes |-> <<>>,
          frames |-> <<DispatchFrame(onLocationChanged(location, action)),
                       SetStateFrame([action |-> action, location |-> location])>>]
    ELSE [writes |-> <<>>,
          frames |-> <<SetStateFrame([action |-> action, location |-> location])>>]

\* A listener that never dispatches.
historyListenerSilent(ref, location, action) ==
    IF ref = FALSE
    THEN [writes |-> <<>>,
          frames |-> <<SetStateFrame([action |-> action, location |-> location])>>]
    ELSE [writes |-> <<FALSE>>,
          frames |-> <<SetStateFrame([action |-> action, location |-> location])>>]

\* A listener that dispatches the echo of a corrective push as well.
historyListenerDispatchesEcho(ref, location, action) ==
    [writes |-> <<>>,
     frames |-> <<DispatchFrame(onLocationChanged(location, action)),
                  SetStateFrame([action |-> action, location |-> location])>>]

\* The history listener (lines 216-223): the writes to the guard and the
\* calls it makes.
historyListener(ref, location, action) ==
    IF ref = FALSE
    THEN [writes |-> <<>>,
          frames |-> <<DispatchFrame(onLocationChanged(location, action)),
                       SetStateFrame([action |-> action, location |-> location])>>]
    ELSE [writes |-> <<FALSE>>,
          frames |-> <<SetStateFrame([action |-> action, location |-> location])>>]

\* The value of a ref after `writes`.
Written(ref, writes) == IF writes = <<>> THEN ref ELSE writes[Len(writes)]

HistoryListener ==
    /\ Running("listener")
    /\ LET r == historyListener(timeTravellingRef, Top.location, Top.action)
       IN /\ timeTravellingRef' = Written(timeTravellingRef, r.writes)
          /\ refWrites' = refWrites \o r.writes
          /\ Continue(r.frames)
    /\ observed' = <<[location |-> Top.location, action |-> Top.action]>>
    /\ UNCHANGED <<historyVars, subsVars, storeState, enableTimeTravelling,
                   phase, state, stim, events, dispatched, reduced, calls,
                   mwReturn, thrown>>

SetState ==
    /\ Running("setState")
    /\ state' = Top.value
    /\ Continue(<<>>)
    /\ UNCHANGED <<historyVars, subsVars, storeState, enableTimeTravelling,
                   phase, timeTravellingRef, logVars, mwReturn, thrown>>

\* An effect that subscribes to the store whatever the prop says.
effectAlwaysSubscribes(enabled) == [subscribed |-> TRUE, listening |-> TRUE]

\* What the effect subscribes to (lines 194-223).
effect(enabled) == [subscribed |-> enabled = TRUE, listening |-> TRUE]

\* The effect runs: after the first render, or again after a cleanup.
Effect ==
    /\ phase \in {"rendered", "cleaned"}
    /\ Stimulus([kind |-> "effect"])
    /\ phase' = "active"
    /\ subscribed' = effect(enableTimeTravelling).subscribed
    /\ listening' = effect(enableTimeTravelling).listening
    /\ UNCHANGED <<historyVars, storeState, enableTimeTravelling, state,
                   timeTravellingRef, stack>>

\* A cleanup that forgets removeHistoryListener().
cleanupKeepsListener(sub) ==
    [subscribed |-> IF sub THEN FALSE ELSE sub, listening |-> TRUE]

\* What cleanup leaves of the two subscriptions (lines 225-230): the
\* listener is removed, and the store subscription if there is one.
cleanup(sub) ==
    [subscribed |-> IF sub THEN FALSE ELSE sub, listening |-> FALSE]

Cleanup ==
    /\ phase = "active"
    /\ Stimulus([kind |-> "cleanup"])
    /\ phase' = "cleaned"
    /\ subscribed' = cleanup(subscribed).subscribed
    /\ listening' = cleanup(subscribed).listening
    /\ UNCHANGED <<historyVars, storeState, enableTimeTravelling, state,
                   timeTravellingRef, stack>>

(* --------------------------------------------------------------- stimuli *)

\* A stimulus that may push needs room on the bounded stack.
Room == index < MaxEntries

\* A command that pushes needs room; the others leave the stack's length.
RoomFor(c) == c.payload.method = "push" => Room

\* Between the first render and its effect the model lets the history
\* navigate and nothing else; the store is used once the effect has run.
Mounted == phase # "rendered"

\* Producer code dispatches a command message.
DispatchCommandOf(commands) ==
    \E c \in commands :
        /\ RoomFor(c)
        /\ Mounted
        /\ Stimulus([kind |-> "command"])
        /\ stack' = <<DispatchFrame(c)>>
        /\ UNCHANGED <<historyVars, subsVars, storeState, enableTimeTravelling,
                       phase, state, timeTravellingRef>>

DispatchCommand == DispatchCommandOf(Commands)

\* The application dispatches a message of its own.
DispatchOther ==
    /\ Room
    /\ Mounted
    /\ Stimulus([kind |-> "other", before |-> Before])
    /\ stack' = <<DispatchFrame(OtherMessage)>>
    /\ UNCHANGED <<historyVars, subsVars, storeState, enableTimeTravelling,
                   phase, state, timeTravellingRef>>

\* A tool outside (devtools time travel) puts another location and action
\* into the store's router state; the store calls its subscribers.
ExternalStoreChangeOf(routerStates) ==
    \E rs \in routerStates :
        /\ Room
        /\ Mounted
        /\ Stimulus([kind |-> "external", before |-> Before])
        /\ storeState' = [storeState EXCEPT !.router = Spread(@, rs)]
        /\ stack' = NotifySubscribers
        /\ UNCHANGED <<historyVars, subsVars, enableTimeTravelling, phase,
                       state, timeTravellingRef>>

ExternalStoreChange == ExternalStoreChangeOf(RouterStates)

\* A navigation that does not come through the store: the user, or a link
\* calling the navigator.
NavigateOf(navigations) ==
    \E c \in navigations :
        /\ RoomFor(c)
        /\ Stimulus([kind |-> "navigate"])
        /\ stack' = <<HistoryFrame(c.payload.method, c.payload.args, "user")>>
        /\ UNCHANGED <<historyVars, subsVars, storeState, enableTimeTravelling,
                       phase, state, timeTravellingRef>>

Navigate == NavigateOf(UserNavigations)

(* ------------------------------------------------------------------ Next *)

(* The reconciler from its first render on, with every input above.  Its   *)
(* teardown and its activation after a teardown are in SpecLifecycle.      *)
Next ==
    \/ Effect
    \/ DispatchCommand
    \/ DispatchOther
    \/ ExternalStoreChange
    \/ Navigate
    \/ Middleware
    \/ StoreDispatch
    \/ HistoryCall
    \/ StoreSubscription
    \/ SetRef
    \/ HistoryListener
    \/ SetState

Spec == Init /\ [][Next]_vars

(* ------------------------------------------------------------- lifecycle *)

(* The same program with the effect's cleanup and the effect running       *)
(* again after it, over fewer inputs: three locations and one command of   *)
(* each action kind and direction.                                         *)
LifecycleLocations == { LocA, LocB, LocS }

LifecycleCommands ==
    { push(PathOf(LocB), Null), replace(PathOf(LocS), LocS.state), back, forward }

LifecycleRouterStates ==
    { [location |-> l, action |-> a] :
         l \in LifecycleLocations, a \in ActionKinds }

LifecycleInit == InitOf({ LocA }, { [k \in {} |-> 1] }, {})

LifecycleCommand == DispatchCommandOf(LifecycleCommands)

LifecycleStoreChange == ExternalStoreChangeOf(LifecycleRouterStates)

LifecycleNavigate == NavigateOf(LifecycleCommands)

NextLifecycle ==
    \/ Effect
    \/ Cleanup
    \/ LifecycleCommand
    \/ DispatchOther
    \/ LifecycleStoreChange
    \/ LifecycleNavigate
    \/ Middleware
    \/ StoreDispatch
    \/ HistoryCall
    \/ StoreSubscription
    \/ SetRef
    \/ HistoryListener
    \/ SetState

SpecLifecycle == LifecycleInit /\ [][NextLifecycle]_vars

(* --------------------------------------------------------------- reducer *)

(* The reducer alone, as a store without the router middleware calls it:   *)
(* any message reaches it, in any router state.                            *)
ReducerMessages ==
    { onLocationChanged(rs.location, rs.action) : rs \in RouterStates }
    \cup Commands
    \cup { OtherMessage }

Reduce ==
    \E msg \in ReducerMessages :
        /\ Stimulus([kind |-> "reduce", msg |-> msg, before |-> storeState])
        /\ storeState' = rootReducer(storeState, msg)
        /\ UNCHANGED <<historyVars, subsVars, compVars, stack>>

NextReducer == Reduce

SpecReducer == Init /\ [][NextReducer]_vars

(* -------------------------------------------------------------- fairness *)

(* Every callback runs synchronously to its end: a call that is on the     *)
(* stack is made.                                                          *)
Step ==
    \/ Middleware
    \/ StoreDispatch
    \/ HistoryCall
    \/ StoreSubscription
    \/ SetRef
    \/ HistoryListener
    \/ SetState

SpecFair == Spec /\ WF_vars(Step)

(* -------------------------------------------------------------- failures *)

(* The same program with collaborators that may fail: a history operation  *)
(* may throw without navigating and without calling the listeners, and     *)
(* history.listen may throw when the effect registers the listener.        *)
(* Nothing in index.tsx catches: the exception unwinds every running call. *)

\* history[method](...args) throws (lines 128 and 211 have no try).
HistoryCallFails ==
    /\ Running("history")
    /\ calls' = Append(calls, [method |-> Top.method, args |-> Top.args,
                               by |-> Top.by])
    /\ thrown' = TRUE
    /\ mwReturn' = IF Top.by = "middleware" THEN "throws" ELSE mwReturn
    /\ stack' = <<>>
    /\ UNCHANGED <<historyVars, subsVars, storeState, compVars, stim, events,
                   dispatched, reduced, refWrites, observed>>

\* What the effect leaves when props.history.listen throws (lines 194-216):
\* the store subscription of line 195 is made, line 225 is never reached.
effectFails(enabled) == [subscribed |-> enabled = TRUE, listening |-> FALSE]

\* The effect throws: it returns no cleanup function.
EffectFails ==
    /\ phase \in {"rendered", "cleaned"}
    /\ StimulusEnding([kind |-> "effect"], TRUE)
    /\ phase' = "failed"
    /\ subscribed' = effectFails(enableTimeTravelling).subscribed
    /\ listening' = effectFails(enableTimeTravelling).listening
    /\ UNCHANGED <<historyVars, storeState, enableTimeTravelling, state,
                   timeTravellingRef, stack>>

\* The cleanup function is called a second time.
CleanupAgain ==
    /\ phase = "cleaned"
    /\ Stimulus([kind |-> "cleanupAgain"])
    /\ subscribed' = cleanup(subscribed).subscribed
    /\ listening' = cleanup(subscribed).listening
    /\ UNCHANGED <<historyVars, storeState, compVars, stack>>

FailureCommands == { push(PathOf(LocB), Null), back }

FailureRouterStates ==
    { [location |-> l, action |-> a] : l \in { LocA, LocB }, a \in { "PUSH", "POP" } }

FailureCommand == DispatchCommandOf(FailureCommands)

FailureStoreChange == ExternalStoreChangeOf(FailureRouterStates)

FailureNavigate == NavigateOf(FailureCommands)

NextFailure ==
    \/ Effect
    \/ EffectFails
    \/ Cleanup
    \/ CleanupAgain
    \/ FailureCommand
    \/ DispatchOther
    \/ FailureStoreChange
    \/ FailureNavigate
    \/ Middleware
    \/ StoreDispatch
    \/ HistoryCall
    \/ HistoryCallFails
    \/ StoreSubscription
    \/ SetRef
    \/ HistoryListener
    \/ SetState

SpecFailure == LifecycleInit /\ [][NextFailure]_vars

(* ---------------------------------------------------------------- claims *)

RouterState == reduxRouterSelector(storeState)

StoreLocation == RouterState.location

RouterIs(e) == RouterState.location = e.location /\ RouterState.action = e.action

ActiveDetecting == phase = "active" /\ enableTimeTravelling = TRUE

Range(seq) == { seq[i] : i \in 1..Len(seq) }

\* The system has settled after an outside change of the store's location,
\* made while the history's last action was PUSH and its location another.
TimeTravelled ==
    /\ Quiescent
    /\ stim.kind = "external"
    /\ ActiveDetecting
    /\ stim.before.action = "PUSH"
    /\ StoreLocation # stim.before.location

(* C1: while the reconciler is active, one dispatched command makes the    *)
(* history emit one NavigationEvent and makes exactly one LOCATION_CHANGED *)
(* message reach the store, whose payload is that event.                   *)
C1_CommandReportedOnce ==
    /\ (stim.kind = "command" /\ phase = "active") => Len(dispatched) <= 1
    /\ (Quiescent /\ stim.kind = "command" /\ phase = "active") =>
          /\ Len(events) = 1
          /\ Len(dispatched) = 1
          /\ dispatched[1] = events[1]

C1_Witness ==
    /\ Quiescent
    /\ stim.kind = "command"
    /\ ActiveDetecting
    /\ Len(dispatched) = 1
    /\ dispatched[1].action = "POP"
    /\ Len(entries) > 1

(* C2: no loop.  After the store's location was changed from outside to B  *)
(* while the history was at another location with last action PUSH, the    *)
(* reconciler has called push(B) on the history exactly once, no           *)
(* LOCATION_CHANGED has reached the store, and the guard was set once and  *)
(* cleared once.                                                           *)
C2_NoLoop ==
    /\ stim.kind = "external" =>
          /\ Len(calls) <= 1
          /\ dispatched = <<>>
    /\ TimeTravelled =>
          /\ calls = <<[method |-> "push", args |-> <<StoreLocation>>,
                        by |-> "reconciler"]>>
          /\ Len(events) = 1
          /\ reduced = <<>>
          /\ refWrites = <<TRUE, FALSE>>
          /\ timeTravellingRef = FALSE

C2_Witness ==
    /\ TimeTravelled
    /\ Len(calls) = 1
    /\ StoreLocation.state # stim.before.location.state
    /\ PathOf(StoreLocation) = PathOf(stim.before.location)

(* C3 as stated: whenever nothing is running, the store's RouterState is   *)
(* the last NavigationEvent the reconciler observed: the same action kind  *)
(* and the same location (compared here by pathname, search and hash,      *)
(* which the full comparison of the claim implies).                        *)
C3_Original ==
    (Quiescent /\ phase = "active" /\ observed # NoEvent) =>
        /\ PathOf(RouterState.location) = PathOf(observed[1].location)
        /\ RouterState.action = observed[1].action

(* C3, amended: whenever the system has settled after a navigation (a      *)
(* command or a navigation of the history's own) handled by an active      *)
(* reconciler, the store's RouterState is the NavigationEvent of that      *)
(* navigation, the last one the reconciler observed.                       *)
C3_RouterStateAfterNavigation ==
    (Quiescent /\ phase = "active" /\ stim.kind \in {"command", "navigate"}) =>
        /\ Len(events) = 1
        /\ observed = <<events[1]>>
        /\ RouterIs(observed[1])

C3_Witness ==
    /\ Quiescent
    /\ ActiveDetecting
    /\ stim.kind = "navigate"
    /\ observed # NoEvent
    /\ observed[1].action = "PUSH"
    /\ RouterIs(observed[1])
    /\ Len(entries) > 1

\* The window of a corrective push: the reconciler's push is about to run,
\* or the listener is about to be called with the event of that push.
InWindow ==
    /\ stack # <<>>
    /\ Top.pc \in {"history", "listener"}
    /\ Top.by = "reconciler"

(* C4: the guard is true only inside the window of a corrective push, and  *)
(* the only step that clears it is the listener handling the event of      *)
(* that push.                                                              *)
C4_GuardOnlyInWindow ==
    /\ [](timeTravellingRef = TRUE => InWindow)
    /\ [][(timeTravellingRef = TRUE /\ timeTravellingRef' = FALSE) =>
              (Running("listener") /\ Top.by = "reconciler")]_vars

C4_Witness ==
    /\ timeTravellingRef = TRUE
    /\ Running("listener")
    /\ Top.by = "reconciler"

(* C5: a store change that finds the history's last action REPLACE or POP  *)
(* and the store's location different from the history's calls no history  *)
(* operation and does not write the guard.                                 *)
C5_NoDetection ==
    ( /\ stim.kind \in {"external", "other"}
      /\ stim.before.action \in {"REPLACE", "POP"}
      /\ StoreLocation # stim.before.location ) =>
        /\ calls = <<>>
        /\ events = <<>>
        /\ refWrites = <<>>
        /\ timeTravellingRef = FALSE
        /\ Before = stim.before

C5_Witness ==
    /\ Quiescent
    /\ stim.kind = "external"
    /\ ActiveDetecting
    /\ stim.before.action = "POP"
    /\ StoreLocation # historyLocation
    /\ StoreLocation.hash # historyLocation.hash

(* C6: after cleanup neither subscription is left, and no navigation or    *)
(* store change makes the reconciler dispatch, push, write the guard or    *)
(* set its render state.                                                   *)
C6_Teardown ==
    /\ [](phase = "cleaned" =>
            /\ listening = FALSE
            /\ subscribed = FALSE
            /\ dispatched = <<>>
            /\ refWrites = <<>>
            /\ \A i \in 1..Len(calls) : calls[i].by # "reconciler"
            /\ \A i \in 1..Len(stack) :
                  stack[i].pc \notin {"listener", "subscriber", "setRef", "setState"})
    /\ [][(phase = "cleaned" /\ phase' = "cleaned") =>
              (state' = state /\ timeTravellingRef' = timeTravellingRef)]_vars

C6_Witness ==
    /\ phase = "cleaned"
    /\ Quiescent
    /\ stim.kind = "navigate"
    /\ Len(events) = 1
    /\ enableTimeTravelling = TRUE
    /\ state.location # historyLocation
    /\ StoreLocation # historyLocation
    /\ hAction = "PUSH"

(* C7 as stated: after the store's location was set from outside to C      *)
(* while the history was elsewhere with last action PUSH, the history is   *)
(* at C (compared here by pathname, search and hash, which the claim's     *)
(* "at location C" implies), the guard was set and cleared, the store's    *)
(* RouterState is {location: C, action: PUSH} and no LOCATION_CHANGED was  *)
(* dispatched.                                                             *)
C7_Original ==
    TimeTravelled =>
        /\ PathOf(historyLocation) = PathOf(StoreLocation)
        /\ refWrites = <<TRUE, FALSE>>
        /\ RouterState.action = "PUSH"
        /\ dispatched = <<>>

(* C7, amended: in that case the history ends with last action PUSH at a   *)
(* location with C's pathname, search and hash, the guard was set and      *)
(* cleared, no message reached the reducer (so the store keeps the         *)
(* location C and the action kind the outside change gave it), and the     *)
(* render state is the history's location and PUSH.                        *)
C7_TimeTravelEndState ==
    TimeTravelled =>
        /\ PathOf(historyLocation) = PathOf(StoreLocation)
        /\ hAction = "PUSH"
        /\ refWrites = <<TRUE, FALSE>>
        /\ timeTravellingRef = FALSE
        /\ dispatched = <<>>
        /\ reduced = <<>>
        /\ state = [action |-> "PUSH", location |-> historyLocation]

C7_Witness ==
    /\ TimeTravelled
    /\ RouterState.action = "POP"
    /\ hAction = "PUSH"
    /\ StoreLocation.pathname # stim.before.location.pathname
    /\ historyLocation = StoreLocation

(* C8: the middleware answers a CALL_HISTORY_METHOD message with one call  *)
(* of the history operation its payload names, with the payload's args,    *)
(* and nothing else; no such message ever reaches the reducer.             *)
C8_CommandsConsumed ==
    /\ [](ROUTER_CALL_HISTORY_METHOD \notin Range(reduced))
    /\ []((Quiescent /\ stim.kind = "command") =>
            (Len(calls) = 1 /\ calls[1].by = "middleware"))
    /\ [][(Running("dispatch") /\ Top.msg.type = ROUTER_CALL_HISTORY_METHOD) =>
              stack' = <<HistoryFrame(Top.msg.payload.method,
                                      Top.msg.payload.args, "middleware")>>
                       \o Tail(stack)]_vars

C8_Witness ==
    /\ Quiescent
    /\ stim.kind = "command"
    /\ Len(calls) = 1
    /\ calls[1].method = "replace"
    /\ calls[1].by = "middleware"
    /\ reduced = <<ROUTER_ON_LOCATION_CHANGED>>

(* C9: the middleware hands every other message to next once and as it     *)
(* is, returns what next returns, and calls no history operation.          *)
C9_OthersPassThrough ==
    /\ []((Quiescent /\ stim.kind = "other") =>
            /\ reduced = <<OTHER_TYPE>>
            /\ \A i \in 1..Len(calls) : calls[i].by # "middleware")
    /\ [][(Running("dispatch") /\ Top.msg.type # ROUTER_CALL_HISTORY_METHOD) =>
              /\ stack' = <<NextFrame(Top.msg)>> \o Tail(stack)
              /\ mwReturn' = "next"
              /\ calls' = calls
              /\ UNCHANGED historyVars]_vars

C9_Witness ==
    /\ Quiescent
    /\ stim.kind = "other"
    /\ reduced = <<OTHER_TYPE>>
    /\ mwReturn = "next"
    /\ phase = "active"

(* C10: the reducer answers LOCATION_CHANGED {loc, act} with a state whose *)
(* location is loc and whose action is act, and whose other keys are those *)
(* of the state it was given, with their values.                           *)
C10_ReducerLocationChanged ==
    [][(Running("next") /\ Top.msg.type = ROUTER_ON_LOCATION_CHANGED) =>
          /\ storeState'.router.location = Top.msg.payload.location
          /\ storeState'.router.action = Top.msg.payload.action
          /\ DOMAIN storeState'.router =
                (DOMAIN storeState.router) \cup {"location", "action"}
          /\ \A k \in (DOMAIN storeState.router) \ {"location", "action"} :
                storeState'.router[k] = storeState.router[k]]_vars

C10_Witness ==
    /\ Quiescent
    /\ Len(dispatched) = 1
    /\ "extra" \in DOMAIN RouterState
    /\ RouterState.extra = 1
    /\ RouterIs(dispatched[1])
    /\ RouterState.action = "REPLACE"

(* C11: the reducer answers every message whose type is not                *)
(* LOCATION_CHANGED, a command as well as a message of the application,    *)
(* with the state it was given; only a LOCATION_CHANGED message changes    *)
(* the router state.                                                       *)
C11_ReducerOtherMessages ==
    /\ []((stim.kind = "reduce" /\ stim.msg.type # ROUTER_ON_LOCATION_CHANGED) =>
            storeState = stim.before)
    /\ [][storeState' # storeState =>
              stim'.msg.type = ROUTER_ON_LOCATION_CHANGED]_vars

C11_Witness ==
    /\ stim.kind = "reduce"
    /\ stim.msg.type = ROUTER_CALL_HISTORY_METHOD
    /\ stim.msg.payload.method = "push"
    /\ storeState = stim.before
    /\ "extra" \in DOMAIN RouterState
    /\ StoreLocation # historyLocation
    /\ RouterState.action = "REPLACE"

(* C12: with enableTimeTravelling false the reconciler has no store        *)
(* subscription, never calls the history, never writes the guard, and      *)
(* calls dispatch with LOCATION_CHANGED for every NavigationEvent its      *)
(* listener gets, before and after a teardown and a new activation.        *)
C12_DetectionDisabled ==
    /\ [](enableTimeTravelling = FALSE =>
            /\ subscribed = FALSE
            /\ timeTravellingRef = FALSE
            /\ refWrites = <<>>
            /\ \A i \in 1..Len(calls) : calls[i].by # "reconciler"
            /\ \A i \in 1..Len(stack) : stack[i].pc \notin {"subscriber", "setRef"})
    /\ []((enableTimeTravelling = FALSE /\ Quiescent /\ phase = "active"
              /\ stim.kind \in {"command", "navigate"}) =>
            (Len(events) = 1 /\ dispatched = events))
    /\ [][(enableTimeTravelling = FALSE /\ Running("listener")) =>
              stack' = <<DispatchFrame(onLocationChanged(Top.location, Top.action)),
                         SetStateFrame([action |-> Top.action,
                                        location |-> Top.location])>>
                       \o Tail(stack)]_vars

C12_Witness ==
    /\ enableTimeTravelling = FALSE
    /\ Quiescent
    /\ phase = "active"
    /\ stim.kind = "external"
    /\ hAction = "PUSH"
    /\ StoreLocation.pathname # historyLocation.pathname
    /\ calls = <<>>
    /\ reduced = <<>>

(* C13: teardown leaves no subscription, a second call of it changes       *)
(* nothing, and every subscription that was made has a teardown: a live    *)
(* subscription belongs to an effect that returned its cleanup.            *)
C13_TeardownAlwaysExists ==
    /\ [](phase = "cleaned" => (listening = FALSE /\ subscribed = FALSE))
    /\ [][(phase = "cleaned" /\ phase' = "cleaned") =>
              (listening' = listening /\ subscribed' = subscribed)]_vars
    /\ []((listening \/ subscribed) => phase = "active")

(* C14: when a history operation throws without navigating, the exception *)
(* reaches the caller, no LOCATION_CHANGED reaches the store, and the      *)
(* reconciler is left with a clear guard, so that the next navigation is   *)
(* dispatched to the store.                                                *)
C14_FailureLeavesMirror ==
    /\ []((thrown /\ stim.kind # "effect") =>
            /\ Quiescent
            /\ events = <<>>
            /\ dispatched = <<>>
            /\ ROUTER_ON_LOCATION_CHANGED \notin Range(reduced))
    /\ []((thrown /\ phase = "active") => timeTravellingRef = FALSE)
    /\ []((Quiescent /\ ~thrown /\ phase = "active" /\ stim.kind = "navigate") =>
            (Len(events) = 1 /\ dispatched = events))

(* C15: every NavigationEvent the listener of an active reconciler gets    *)
(* for an operation that is not its own corrective push makes it call      *)
(* dispatch once with LOCATION_CHANGED and that event, leaving the guard   *)
(* as it is; the listener skips the dispatch only for the event of its own *)
(* corrective push.                                                        *)
C15_RealNavigationsReported ==
    /\ []((Quiescent /\ phase = "active" /\ stim.kind \in {"command", "navigate"}) =>
            (Len(events) = 1 /\ dispatched = events))
    /\ [][(Running("listener") /\ Top.by # "reconciler") =>
              /\ stack' = <<DispatchFrame(onLocationChanged(Top.location, Top.action)),
                            SetStateFrame([action |-> Top.action,
                                           location |-> Top.location])>>
                          \o Tail(stack)
              /\ timeTravellingRef' = timeTravellingRef]_vars
    /\ [][(Running("listener") /\ Head(stack').pc # "dispatch") =>
              (Top.by = "reconciler" /\ timeTravellingRef = TRUE)]_vars

C15_Witness ==
    /\ Quiescent
    /\ ActiveDetecting
    /\ stim.kind = "navigate"
    /\ Len(events) = 1
    /\ dispatched = events
    /\ events[1].action = "POP"
    /\ index = 1
    /\ Len(entries) = 2
    /\ RouterIs(events[1])

\* The store change of the last stimulus qualifies for a correction.
Qualifies ==
    /\ stim.kind \in {"external", "other"}
    /\ ActiveDetecting
    /\ stim.before.action = "PUSH"
    /\ StoreLocation # stim.before.location

(* C16: when the reconciler's push is about to run the guard has been set  *)
(* and nothing else has been written or called; the guard is still set     *)
(* when the listener is called with the event of that push; a qualifying   *)
(* store change ends with exactly one push, of the store's location, and   *)
(* any other store change with none.                                       *)
C16_GuardBeforePush ==
    /\ (Running("history") /\ Top.by = "reconciler") =>
          /\ timeTravellingRef = TRUE
          /\ refWrites = <<TRUE>>
          /\ calls = <<>>
    /\ (Running("listener") /\ Top.by = "reconciler") =>
          /\ timeTravellingRef = TRUE
          /\ refWrites = <<TRUE>>
    /\ (Quiescent /\ Qualifies) =>
          calls = <<[method |-> "push", args |-> <<StoreLocation>>,
                    by |-> "reconciler"]>>
    /\ (stim.kind \in {"external", "other"} /\ ~Qualifies) => calls = <<>>

C16_Witness ==
    /\ Running("listener")
    /\ Top.by = "reconciler"
    /\ timeTravellingRef = TRUE
    /\ stim.kind = "other"
    /\ reduced = <<OTHER_TYPE>>
    /\ Len(calls) = 1

(* C17: one stimulus makes at most one history operation run, at most one  *)
(* LOCATION_CHANGED reach the store and at most one corrective push; the   *)
(* chain of calls it starts always ends, and it ends with the guard false. *)
C17_Quiescence ==
    /\ [](/\ Len(calls) <= 1
          /\ Len(events) <= 1
          /\ Len(dispatched) <= 1
          /\ Len(reduced) <= 1
          /\ Len(stack) <= 2)
    /\ [](Quiescent => timeTravellingRef = FALSE)
    /\ (~Quiescent) ~> Quiescent

C17_Witness ==
    /\ Quiescent
    /\ phase = "active"
    /\ stim.kind = "external"
    /\ Len(calls) = 1
    /\ Len(events) = 1
    /\ refWrites = <<TRUE, FALSE>>
    /\ timeTravellingRef = FALSE
    /\ index = 2

(* C18: whenever nothing is running and the reconciler is active, its      *)
(* render state is the history's current location and action.              *)
C18_RenderFollowsHistory ==
    (Quiescent /\ phase = "active") =>
        state = [action |-> hAction, location |-> historyLocation]

(* C19: after cleanup the guard is false, and the effect that runs after a *)
(* cleanup starts with the guard false.                                    *)
C19_GuardResetOnTeardown ==
    /\ [](phase = "cleaned" => timeTravellingRef = FALSE)
    /\ [][(phase = "cleaned" /\ phase' = "active") =>
              timeTravellingRef' = FALSE]_vars

(* C20: a message of the application, which leaves the store's location    *)
(* as it is, makes the reconciler call no history operation; and no store  *)
(* change does when the store's location equals the history's.             *)
C20_NoRevert ==
    /\ (stim.kind = "other" /\ phase = "active") => calls = <<>>
    /\ (stim.kind \in {"other", "external"}
          /\ StoreLocation = stim.before.location) => calls = <<>>

====
